---- MODULE Spec2Model ----
(***************************************************************************)
(* Model of trainer_embedding_corr.py: the Trainer class of the talking-   *)
(* face GAN.  The state is the Trainer object (the four models' weights    *)
(* and gradient buffers, start_epoch), the locals of a running fit (epoch, *)
(* step, cc, the loss variables, the position in the loop body), the       *)
(* model directory on disk, the sample files, the metrics log and stdout.  *)
(*                                                                         *)
(* Weights are abstracted to a version number: a fresh model has version   *)
(* 0 and every optimizer step over a model's parameters produces a new     *)
(* version.  A gradient buffer is abstracted to the number of backward     *)
(* passes accumulated in it since it was last zeroed (0 = zero / None).    *)
(* Paths are sequences of tokens, so that formatting a checkpoint name and *)
(* parsing the epoch back out of it are two different computations.        *)
(***************************************************************************)
EXTENDS Integers, Sequences, FiniteSets, TLC

\* ------------------------------------------------------------------ bounds
\* largest number of batches the data loader yields per epoch
MaxSteps == 11
\* largest config.max_epochs
MaxEpochs == 2

\* ------------------------------------------------------- program constants
\* the 10 of `num_steps_per_epoch / 10`
SampleDivisor == 10

\* ------------------------------------------------------------------- state
VARIABLES
    config,            \* immutable configuration record (and the interpreter)
    run,               \* 1: the first Trainer of the scenario, 2: a fresh one
    removed,           \* TRUE once a checkpoint file was lost between the runs
    pc,                \* position of the program
    error,             \* the exception that ended the program, or "none"
    params,            \* weights version of each model
    grad,              \* gradient buffer of each model
    start_epoch,       \* Trainer.start_epoch
    paths,             \* locals of load: gen_path, disc_path, ...
    epoch, step, cc,   \* locals of fit
    losses,            \* loss variables of fit: global step that computed them
    loss_g_terms,      \* the terms summed into loss_g in the current step
    opt_steps,         \* optimizer steps taken by the running fit, per optimizer
    files,             \* the model directory: path -> saved weights version
    ckpt_writes,       \* torch.save calls of the running fit, in order
    sample_writes,     \* save_image calls of the running fit, in order
    logged,            \* log_value calls of the running fit, in order
    printed            \* fields of the last progress line on stdout

vars == <<config, run, removed, pc, error, params, grad, start_epoch, paths,
          epoch, step, cc, losses, loss_g_terms, opt_steps, files,
          ckpt_writes, sample_writes, logged, printed>>

Models == {"generator", "discriminator", "audio_encoder", "images_encoder"}

Optimizers == {"opt_g", "opt_d", "opt_corr"}

\* ----------------------------------------------------------------- strings
DecimalDigits == <<"0", "1", "2", "3", "4", "5", "6", "7", "8", "9">>

\* "{}".format(n) for a natural number n
RECURSIVE Str(_)
Str(n) ==
    IF n < 10 THEN <<DecimalDigits[n + 1]>>
    ELSE Str(n \div 10) \o <<DecimalDigits[(n % 10) + 1]>>

DigitValue(t) == CHOOSE d \in 0..9 : DecimalDigits[d + 1] = t

IsDigit(t) == \E d \in 0..9 : DecimalDigits[d + 1] = t

\* int(s) fails with ValueError unless s is a non-empty string of digits
IntOk(s) == Len(s) > 0 /\ \A i \in 1..Len(s) : IsDigit(s[i])

RECURSIVE IntOf(_)
IntOf(s) ==
    IF Len(s) = 1 THEN DigitValue(s[1])
    ELSE 10 * IntOf(SubSeq(s, 1, Len(s) - 1)) + DigitValue(s[Len(s)])

\* s.split(sep)[0]: the text before the first separator
SplitFirst(s, sep) ==
    IF \E i \in 1..Len(s) : s[i] = sep
    THEN SubSeq(s, 1, (CHOOSE i \in 1..Len(s) :
                          s[i] = sep /\ \A j \in 1..(i - 1) : s[j] # sep) - 1)
    ELSE s

\* s.split(sep)[-1]: the text after the last separator
SplitLast(s, sep) ==
    IF \E i \in 1..Len(s) : s[i] = sep
    THEN SubSeq(s, (CHOOSE i \in 1..Len(s) :
                       s[i] = sep /\ \A j \in (i + 1)..Len(s) : s[j] # sep) + 1,
                Len(s))
    ELSE s

\* `word in path`
Contains(path, word) ==
    \E i \in 0..(Len(path) - Len(word)) :
        \A j \in 1..Len(word) : path[i + j] = word[j]

\* the file-name stem each model is saved under, and the substring load
\* looks for
Stem ==
    [generator      |-> <<"generator">>,
     discriminator  |-> <<"discriminator">>,
     audio_encoder  |-> <<"audio", "_", "deri", "_", "encoder">>,
     images_encoder |-> <<"flow", "_", "encoder">>]

\* "{}/<stem>_{}.pth".format(config.model_dir, epoch)
CheckpointPath(dir, m, e) == dir \o <<"/">> \o Stem[m] \o <<"_">> \o Str(e) \o <<".", "pth">>

\* int(gen_path.split(".")[0].split("_")[-1])
EpochToken(path) == SplitLast(SplitFirst(path, "."), "_")

\* the model directories a configuration may name: "models" and "./models"
ModelDirs == {<<"models">>, <<".", "/", "models">>}

\* the values of len(self.data_loader)
StepsChoices == {1, 2, MaxSteps}

NoPath == <<>>

NoValue == 0 - 1

FreshParams == [m \in Models |-> 0]

ZeroGrad == [m \in Models |-> 0]

\* ------------------------------------------------------------ construction
\* the locals of a fit that has not started
FitLocalsInit ==
    /\ epoch = 0
    /\ step = 0
    /\ cc = 0
    /\ losses = [v \in {"loss_disc", "loss_gen", "loss_cosine", "loss_fake_cosine"} |-> NoValue]
    /\ loss_g_terms = {}
    /\ opt_steps = [o \in Optimizers |-> 0]
    /\ ckpt_writes = <<>>
    /\ sample_writes = <<>>
    /\ logged = <<>>
    /\ printed = {}

Init ==
    /\ config \in [num_steps_per_epoch : StepsChoices,
                   max_epochs : 1..MaxEpochs,
                   fake_corr : BOOLEAN,
                   model_dir : ModelDirs,
                   python : {2, 3}]
    /\ run = 1
    /\ removed = FALSE
    /\ pc = "constructed"
    /\ error = "none"
    /\ params = FreshParams
    /\ grad = ZeroGrad
    /\ start_epoch = 0
    /\ paths = [m \in Models |-> NoPath]
    /\ files = <<>>
    /\ FitLocalsInit

\* a later process constructs a fresh Trainer over the same directories
NewTrainer ==
    /\ pc \in {"done", "crashed"}
    /\ run = 1
    /\ run' = 2
    /\ pc' = "constructed"
    /\ error' = "none"
    /\ params' = FreshParams
    /\ grad' = ZeroGrad
    /\ start_epoch' = 0
    /\ paths' = [m \in Models |-> NoPath]
    /\ epoch' = 0
    /\ step' = 0
    /\ cc' = 0
    /\ losses' = [v \in DOMAIN losses |-> NoValue]
    /\ loss_g_terms' = {}
    /\ opt_steps' = [o \in Optimizers |-> 0]
    /\ ckpt_writes' = <<>>
    /\ sample_writes' = <<>>
    /\ logged' = <<>>
    /\ printed' = {}
    /\ UNCHANGED <<config, removed, files>>

\* between the two runs one checkpoint file may disappear from the directory
RemoveFile ==
    /\ pc = "constructed"
    /\ run = 2
    /\ ~removed
    /\ \E p \in DOMAIN files :
          files' = [q \in (DOMAIN files) \ {p} |-> files[q]]
    /\ removed' = TRUE
    /\ UNCHANGED <<config, run, pc, error, params, grad, start_epoch, paths,
                   epoch, step, cc, losses, loss_g_terms, opt_steps,
                   ckpt_writes, sample_writes, logged, printed>>

\* -------------------------------------------------------------------- load
\* [path for path in paths if word in path]
Matching(m) == {p \in DOMAIN files : Contains(p, Stem[m])}

\* [...][0]: glob returns the directory in arbitrary order, so the first
\* match is any match; an empty list has no element 0
FirstMatch(m) == IF Matching(m) = {} THEN {NoPath} ELSE Matching(m)

\* load with the generator restored as soon as its path is known, before the
\* other three lookups
LoadFromEager(gp, dp, fp, ap) ==
    /\ paths' = [generator |-> gp, discriminator |-> dp,
                 audio_encoder |-> ap, images_encoder |-> fp]
    /\ IF gp = NoPath
       THEN /\ pc' = "crashed"
            /\ error' = "IndexError"
            /\ UNCHANGED <<params, start_epoch>>
       ELSE IF NoPath \in {dp, fp, ap}
       THEN /\ params' = [params EXCEPT !["generator"] = files[gp]]
            /\ pc' = "crashed"
            /\ error' = "IndexError"
            /\ UNCHANGED start_epoch
       ELSE /\ params' = [generator |-> files[gp], discriminator |-> files[dp],
                          audio_encoder |-> files[ap], images_encoder |-> files[fp]]
            /\ IF IntOk(EpochToken(gp))
               THEN /\ start_epoch' = IntOf(EpochToken(gp))
                    /\ pc' = "loaded"
                    /\ error' = "none"
               ELSE /\ pc' = "crashed"
                    /\ error' = "ValueError"
                    /\ UNCHANGED start_epoch
    /\ UNCHANGED <<config, run, removed, grad, epoch, step, cc, losses,
                   loss_g_terms, opt_steps, files, ckpt_writes, sample_writes,
                   logged, printed>>

LoadFrom(gp, dp, fp, ap) ==
    /\ paths' = [generator |-> gp, discriminator |-> dp,
                 audio_encoder |-> ap, images_encoder |-> fp]
    /\ IF NoPath \in {gp, dp, fp, ap}
       THEN \* lines 201-204: IndexError before any load_state_dict
            /\ pc' = "crashed"
            /\ error' = "IndexError"
            /\ UNCHANGED <<params, start_epoch>>
       ELSE \* lines 206-209
            /\ params' = [generator |-> files[gp], discriminator |-> files[dp],
                          audio_encoder |-> files[ap], images_encoder |-> files[fp]]
            /\ IF IntOk(EpochToken(gp))
               THEN /\ start_epoch' = IntOf(EpochToken(gp))
                    /\ pc' = "loaded"
                    /\ error' = "none"
               ELSE \* line 211: int() raises ValueError
                    /\ pc' = "crashed"
                    /\ error' = "ValueError"
                    /\ UNCHANGED start_epoch
    /\ UNCHANGED <<config, run, removed, grad, epoch, step, cc, losses,
                   loss_g_terms, opt_steps, files, ckpt_writes, sample_writes,
                   logged, printed>>

Load ==
    /\ pc = "constructed"
    /\ \E gp \in FirstMatch("generator"), dp \in FirstMatch("discriminator"),
          fp \in FirstMatch("images_encoder"), ap \in FirstMatch("audio_encoder") :
          LoadFrom(gp, dp, fp, ap)

\* --------------------------------------------------------------------- fit
\* step + num_steps_per_epoch * epoch
GlobalStep == step + config.num_steps_per_epoch * epoch

\* opt_g constructed over the parameters of every model
OptParamsAllInG(o) ==
    IF o = "opt_g" THEN {"generator", "discriminator", "audio_encoder", "images_encoder"}
    ELSE IF o = "opt_d" THEN {"discriminator"}
    ELSE {"images_encoder", "audio_encoder"}

\* the models whose parameters each optimizer was constructed over
OptParams(o) ==
    IF o = "opt_g" THEN {"generator"}
    ELSE IF o = "opt_d" THEN {"discriminator"}
    ELSE {"images_encoder", "audio_encoder"}

\* optimizer.step(): new weights for every model of the optimizer
OptStep(o) ==
    /\ params' = [m \in Models |-> IF m \in OptParams(o) THEN params[m] + 1 ELSE params[m]]
    /\ opt_steps' = [opt_steps EXCEPT ![o] = @ + 1]

\* loss.backward(): one more gradient accumulated in every model the loss
\* depends on
Backward(ms) == [m \in Models |-> IF m \in ms THEN grad[m] + 1 ELSE grad[m]]

\* _reset_gradients without the discriminator.zero_grad() line
reset_gradients_no_disc(g) ==
    [m \in Models |-> IF m = "discriminator" THEN g[m] ELSE 0]

\* the gradient buffers after _reset_gradients
reset_gradients(g) == [m \in Models |-> 0]

\* the models loss_disc depends on: fake_im is detached from the generator
DiscLossModels == {"discriminator"}

\* the models loss_g depends on
GenLossModels == {"generator", "discriminator", "audio_encoder", "images_encoder"}

\* lines 83-87
FitStart ==
    /\ pc \in {"constructed", "loaded"}
    /\ pc' = "epoch_head"
    /\ cc' = 0
    /\ epoch' = start_epoch
    /\ step' = 0
    /\ UNCHANGED <<config, run, removed, error, params, grad, start_epoch, paths,
                   losses, loss_g_terms, opt_steps, files, ckpt_writes,
                   sample_writes, logged, printed>>

\* line 89-90: the next epoch of range(start_epoch, max_epochs), or the end
EpochHead ==
    /\ pc = "epoch_head"
    /\ IF epoch < config.max_epochs
       THEN pc' = "d_backward" /\ step' = 0
       ELSE pc' = "done" /\ UNCHANGED step
    /\ UNCHANGED <<config, run, removed, error, params, grad, start_epoch, paths,
                   epoch, cc, losses, loss_g_terms, opt_steps, files,
                   ckpt_writes, sample_writes, logged, printed>>

\* lines 104-117
DBackward ==
    /\ pc = "d_backward"
    /\ pc' = "d_step"
    /\ losses' = [losses EXCEPT !["loss_disc"] = GlobalStep]
    /\ grad' = Backward(DiscLossModels)
    /\ UNCHANGED <<config, run, removed, error, params, start_epoch, paths,
                   epoch, step, cc, loss_g_terms, opt_steps, files, ckpt_writes,
                   sample_writes, logged, printed>>

\* line 118
DStep ==
    /\ pc = "d_step"
    /\ pc' = "d_reset"
    /\ OptStep("opt_d")
    /\ UNCHANGED <<config, run, removed, error, grad, start_epoch, paths,
                   epoch, step, cc, losses, loss_g_terms, files, ckpt_writes,
                   sample_writes, logged, printed>>

\* line 119
DReset ==
    /\ pc = "d_reset"
    /\ pc' = "g_forward"
    /\ grad' = reset_gradients(grad)
    /\ UNCHANGED <<config, run, removed, error, params, start_epoch, paths,
                   epoch, step, cc, losses, loss_g_terms, opt_steps, files,
                   ckpt_writes, sample_writes, logged, printed>>

\* lines 139 and 140 swapped: loss_g reads loss_fake_cosine before the step
\* computes it
FakeCorrBranchStale(ls, terms) ==
    IF config.fake_corr
    THEN [losses |-> [ls EXCEPT !["loss_fake_cosine"] = GlobalStep],
          terms  |-> terms \cup {[term |-> "loss_fake_cosine",
                                  from |-> ls["loss_fake_cosine"]]}]
    ELSE [losses |-> ls, terms |-> terms]

\* lines 136-140: the loss variables and the terms of loss_g after the
\* fake-correlation branch; a term records the step that computed the value
\* it reads
FakeCorrBranch(ls, terms) ==
    IF config.fake_corr
    THEN LET computed == [ls EXCEPT !["loss_fake_cosine"] = GlobalStep]
         IN  [losses |-> computed,
              terms  |-> terms \cup {[term |-> "loss_fake_cosine",
                                      from |-> computed["loss_fake_cosine"]]}]
    ELSE [losses |-> ls, terms |-> terms]

\* lines 122-140
GForward ==
    /\ pc = "g_forward"
    /\ pc' = "g_backward"
    /\ LET ls == [losses EXCEPT !["loss_gen"] = GlobalStep,
                                !["loss_cosine"] = GlobalStep]
           terms == {[term |-> "loss_gen", from |-> ls["loss_gen"]],
                     [term |-> "loss_cosine", from |-> ls["loss_cosine"]]}
           out == FakeCorrBranch(ls, terms)
       IN  /\ losses' = out.losses
           /\ loss_g_terms' = out.terms
    /\ UNCHANGED <<config, run, removed, error, params, grad, start_epoch, paths,
                   epoch, step, cc, opt_steps, files, ckpt_writes,
                   sample_writes, logged, printed>>

\* line 142
GBackward ==
    /\ pc = "g_backward"
    /\ pc' = "g_step"
    /\ grad' = Backward(GenLossModels)
    /\ UNCHANGED <<config, run, removed, error, params, start_epoch, paths,
                   epoch, step, cc, losses, loss_g_terms, opt_steps, files,
                   ckpt_writes, sample_writes, logged, printed>>

\* line 144
GStep ==
    /\ pc = "g_step"
    /\ pc' = "corr_step"
    /\ OptStep("opt_g")
    /\ UNCHANGED <<config, run, removed, error, grad, start_epoch, paths,
                   epoch, step, cc, losses, loss_g_terms, files, ckpt_writes,
                   sample_writes, logged, printed>>

\* line 145
CorrStep ==
    /\ pc = "corr_step"
    /\ pc' = "g_reset"
    /\ OptStep("opt_corr")
    /\ UNCHANGED <<config, run, removed, error, grad, start_epoch, paths,
                   epoch, step, cc, losses, loss_g_terms, files, ckpt_writes,
                   sample_writes, logged, printed>>

\* line 146
GReset ==
    /\ pc = "g_reset"
    /\ pc' = "log"
    /\ grad' = reset_gradients(grad)
    /\ UNCHANGED <<config, run, removed, error, params, start_epoch, paths,
                   epoch, step, cc, losses, loss_g_terms, opt_steps, files,
                   ckpt_writes, sample_writes, logged, printed>>

\* the log_value calls of one step, lines 167-173
LogRecord(series, v) == [series |-> series, gstep |-> GlobalStep, from |-> losses[v]]

\* lines 172-173
FakeCorrLog ==
    IF config.fake_corr
    THEN <<LogRecord("fake_cosine_loss", "loss_fake_cosine")>>
    ELSE <<>>

\* lines 155-165: the loss fields of the progress line
ProgressFields ==
    IF ~config.fake_corr
    THEN {"Loss_D", "Loss_G", "cosine_loss"}
    ELSE {"Loss_D", "Loss_G", "cosine_loss", "fake_cosine_loss"}

\* lines 150-173; the condition of line 150 holds for every step
\* ((step + 1) % 1 == 0)
LogStep ==
    /\ pc = "log"
    /\ pc' = "sample"
    /\ printed' = ProgressFields
    /\ logged' = logged \o <<LogRecord("discriminator_loss", "loss_disc"),
                             LogRecord("generator_loss", "loss_gen"),
                             LogRecord("cosine_loss", "loss_cosine")>> \o FakeCorrLog
    /\ UNCHANGED <<config, run, removed, error, params, grad, start_epoch, paths,
                   epoch, step, cc, losses, loss_g_terms, opt_steps, files,
                   ckpt_writes, sample_writes>>

\* line 175, `step % (num_steps_per_epoch / 10) == 0`, by interpreter.
\* Python 2: / on two ints is floor division, and % by 0 raises
\* ZeroDivisionError.  Python 3: / is true division; n / 10 is the double
\* nearest to n/10, which is n/10 itself exactly when 5 divides n, and the
\* float % is exact: step is a multiple of an exact n/10 iff n divides
\* 10*step, and of an inexact one only when step is 0.
SampleCondition(s, n) ==
    IF config.python = 2
    THEN IF n \div SampleDivisor = 0 THEN "ZeroDivisionError"
         ELSE IF s % (n \div SampleDivisor) = 0 THEN "save" ELSE "skip"
    ELSE IF n % 5 = 0
         THEN IF (SampleDivisor * s) % n = 0 THEN "save" ELSE "skip"
         ELSE IF s = 0 THEN "save" ELSE "skip"

SampleRecord(kind) == [kind |-> kind, suffix |-> cc, epoch |-> epoch, step |-> step]

\* lines 175-184, and the advance of the inner loop (line 90)
Sample ==
    /\ pc = "sample"
    /\ LET c == SampleCondition(step, config.num_steps_per_epoch)
       IN  IF c = "ZeroDivisionError"
           THEN /\ pc' = "crashed"
                /\ error' = c
                /\ UNCHANGED <<step, cc, sample_writes>>
           ELSE /\ IF c = "save"
                   THEN /\ sample_writes' = sample_writes \o
                              <<SampleRecord("fake"), SampleRecord("real")>>
                        /\ cc' = cc + 1
                   ELSE UNCHANGED <<cc, sample_writes>>
                /\ step' = step + 1
                /\ pc' = IF step + 1 < config.num_steps_per_epoch
                         THEN "d_backward" ELSE "save"
                /\ UNCHANGED error
    /\ UNCHANGED <<config, run, removed, params, grad, start_epoch, paths,
                   epoch, losses, loss_g_terms, opt_steps, files, ckpt_writes,
                   logged, printed>>

\* the order of the four torch.save calls, lines 186-197
SaveOrder == <<"generator", "discriminator", "audio_encoder", "images_encoder">>

CkptRecord(m, e) ==
    [path |-> CheckpointPath(config.model_dir, m, e), model |-> m, epoch |-> e,
     after |-> opt_steps["opt_g"]]

\* lines 185-197 (epoch % 1 == 0 holds for every epoch), and the advance of
\* the outer loop
SaveCheckpoint ==
    /\ pc = "save"
    /\ pc' = "epoch_head"
    /\ LET new == {CheckpointPath(config.model_dir, m, epoch) : m \in Models}
       IN  files' = [p \in (DOMAIN files) \cup new |->
                        IF p \in new
                        THEN params[CHOOSE m \in Models :
                                       p = CheckpointPath(config.model_dir, m, epoch)]
                        ELSE files[p]]
    /\ ckpt_writes' = ckpt_writes \o [i \in 1..4 |-> CkptRecord(SaveOrder[i], epoch)]
    /\ epoch' = epoch + 1
    /\ UNCHANGED <<config, run, removed, error, params, grad, start_epoch, paths,
                   step, cc, losses, loss_g_terms, opt_steps, sample_writes,
                   logged, printed>>

Next ==
    \/ NewTrainer
    \/ RemoveFile
    \/ Load
    \/ FitStart
    \/ EpochHead
    \/ DBackward
    \/ DStep
    \/ DReset
    \/ GForward
    \/ GBackward
    \/ GStep
    \/ CorrStep
    \/ GReset
    \/ LogStep
    \/ Sample
    \/ SaveCheckpoint

Spec == Init /\ [][Next]_vars

\* ------------------------------------------------------------ definitions
\* used by the properties below
N == config.num_steps_per_epoch

M == config.max_epochs

CheckpointSet(e) == {CheckpointPath(config.model_dir, m, e) : m \in Models}

\* the epochs whose four checkpoint files are all in the directory
CompleteTags == {e \in 0..MaxEpochs : CheckpointSet(e) \subseteq DOMAIN files}

Highest(S) == CHOOSE e \in S : \A f \in S : f <= e

\* load has returned normally in a fresh Trainer and fit has not started
JustLoaded == run = 2 /\ pc = "loaded"

\* all four models and start_epoch come from the files tagged e
RestoredFrom(e) ==
    /\ \A m \in Models :
          /\ paths[m] = CheckpointPath(config.model_dir, m, e)
          /\ params[m] = files[CheckpointPath(config.model_dir, m, e)]
    /\ start_epoch \in {e, e + 1}

\* positions of fit inside the body of a training step
InStep == pc \in {"d_backward", "d_step", "d_reset", "g_forward", "g_backward",
                  "g_step", "corr_step", "g_reset", "log", "sample"}

\* fit has ended, by returning or by an exception raised inside it
FitEnded == pc = "done" \/ (pc = "crashed" /\ error = "ZeroDivisionError")

\* the global steps of the log_value calls of one series, in call order
LoggedSteps(series) ==
    LET sel == SelectSeq(logged, LAMBDA r : r.series = series)
    IN  [i \in 1..Len(sel) |-> sel[i].gstep]

\* the writes of the running fit to the checkpoint file of model m, epoch e
WritesOf(m, e) == {i \in 1..Len(ckpt_writes) :
                      ckpt_writes[i].model = m /\ ckpt_writes[i].epoch = e}

\* ------------------------------------------------------------------ claims

\* C1 (as claimed): after a fresh Trainer loaded a directory holding exactly
\* the checkpoint set of epoch E, start_epoch is E + 1, the following fit
\* never trains epoch E again and trains nothing when E = max_epochs - 1.
C1_ResumeAtNextEpoch ==
    \A e \in 0..MaxEpochs :
        (run = 2 /\ error = "none" /\ paths["generator"] # NoPath
              /\ DOMAIN files = CheckpointSet(e)) =>
            /\ pc = "loaded" => start_epoch = e + 1
            /\ InStep => epoch > e
            /\ e = M - 1 => \A o \in Optimizers : opt_steps[o] = 0

\* C2 (as claimed): when the directory holds the complete checkpoint sets of
\* several epochs, load restores every model from the set with the highest
\* epoch tag and takes start_epoch from that tag.
C2_LoadsLatest ==
    (JustLoaded /\ ~removed /\ Cardinality(CompleteTags) >= 2) =>
        RestoredFrom(Highest(CompleteTags))

\* C3: the gradient buffers of all four models are zero right after each
\* _reset_gradients call and right before each backward pass, and every
\* optimizer step is followed by _reset_gradients (or by the second optimizer
\* step of the pair and then _reset_gradients) before anything else runs.
GradientsZero == \A m \in Models : grad[m] = 0

C3_ZeroAtResetAndBackward ==
    pc \in {"d_backward", "g_forward", "g_backward", "log"} => GradientsZero

C3_ResetFollowsStep ==
    /\ (InStep /\ opt_steps' # opt_steps) => pc' \in {"d_reset", "corr_step", "g_reset"}
    /\ pc = "corr_step" => pc' = "g_reset"
    /\ pc \in {"d_reset", "g_reset"} => \A m \in Models : grad'[m] = 0

C3_GradientHygiene == []C3_ZeroAtResetAndBackward /\ [][C3_ResetFollowsStep]_vars

\* C3 witness: the first step after load, between the reset of the
\* discriminator phase and the generator backward pass
C3_Witness ==
    /\ run = 2 /\ paths["generator"] # NoPath
    /\ pc = "g_backward"
    /\ opt_steps["opt_d"] = 1 /\ opt_steps["opt_g"] = 0

\* C4 (as claimed): a fit started at epoch 0 never fails, takes one
\* discriminator step and then one generator step per batch, and once it has
\* returned it has taken M*N steps of each and logged at global steps
\* 0 .. M*N-1 in increasing order.
C4_StepAccounting ==
    start_epoch = 0 =>
        /\ error # "ZeroDivisionError"
        /\ opt_steps["opt_d"] - opt_steps["opt_g"] =
              (IF pc \in {"d_reset", "g_forward", "g_backward", "g_step"} THEN 1 ELSE 0)
        /\ pc = "done" =>
              /\ opt_steps["opt_d"] = M * N
              /\ opt_steps["opt_g"] = M * N
              /\ LoggedSteps("discriminator_loss") = [i \in 1..(M * N) |-> i - 1]
              /\ LoggedSteps("generator_loss") = [i \in 1..(M * N) |-> i - 1]
              /\ LoggedSteps("cosine_loss") = [i \in 1..(M * N) |-> i - 1]

\* C5 (as claimed): every checkpoint file written by fit is tagged with an
\* epoch e of start_epoch .. max_epochs-1 and written after the last step of e
\* and before the first step of e+1; no file is written twice; and when fit
\* has ended each such epoch has its set of four files.
C5_CheckpointPerEpoch ==
    /\ \A i \in 1..Len(ckpt_writes) :
          /\ ckpt_writes[i].epoch \in start_epoch..(M - 1)
          /\ ckpt_writes[i].after = (ckpt_writes[i].epoch - start_epoch + 1) * N
    /\ \A m \in Models, e \in 0..MaxEpochs : Cardinality(WritesOf(m, e)) <= 1
    /\ \A e \in 0..MaxEpochs :
          (\E m \in Models : WritesOf(m, e) # {}) => \A m \in Models : WritesOf(m, e) # {}
    /\ FitEnded =>
          \A e \in start_epoch..(M - 1), m \in Models : Cardinality(WritesOf(m, e)) = 1

\* C6: with fake_corr false the fake-correlation loss is never computed, never
\* a term of loss_g, never printed and never logged; with fake_corr true the
\* term of loss_g and the logged value are the value computed in the same step.
C6_FakeCorrGating ==
    /\ ~config.fake_corr =>
          /\ losses["loss_fake_cosine"] = NoValue
          /\ \A t \in loss_g_terms : t.term # "loss_fake_cosine"
          /\ "fake_cosine_loss" \notin printed
          /\ \A i \in 1..Len(logged) : logged[i].series # "fake_cosine_loss"
    /\ config.fake_corr =>
          /\ \A t \in loss_g_terms : t.from = losses["loss_gen"] /\ t.from # NoValue
          /\ pc \in {"g_backward", "g_step", "corr_step", "g_reset", "log", "sample"} =>
                \E t \in loss_g_terms : t.term = "loss_fake_cosine" /\ t.from = GlobalStep
          /\ \A i \in 1..Len(logged) : logged[i].from = logged[i].gstep
          /\ pc = "sample" =>
                \E i \in 1..Len(logged) :
                    logged[i].series = "fake_cosine_loss" /\ logged[i].gstep = GlobalStep

\* C6 witness: fake_corr set, the second step of an epoch has just been logged
C6_Witness ==
    /\ config.fake_corr
    /\ pc = "sample" /\ step = 1
    /\ \E i \in 1..Len(logged) :
          logged[i].series = "fake_cosine_loss" /\ logged[i].gstep = GlobalStep

\* C7: a load that finds no file for at least one of the four categories ends
\* with IndexError and has changed no model's weights and not start_epoch.
LoadStep == pc = "constructed" /\ pc' \in {"loaded", "crashed"}

C7_Step ==
    (LoadStep /\ \E m \in Models : Matching(m) = {}) =>
        /\ pc' = "crashed"
        /\ error' = "IndexError"
        /\ params' = params
        /\ start_epoch' = start_epoch

C7_LoadFailureAtomic == [][C7_Step]_vars

\* C7 witness: load failed on a directory that has a generator file (so the
\* first lookup succeeded) but lacks another category
C7_Witness ==
    /\ pc = "crashed" /\ error = "IndexError"
    /\ Matching("generator") # {}
    /\ \E m \in Models : Matching(m) = {}

\* C8 (as claimed): a load that returns normally from a directory with more
\* than one file of some category took all four models and start_epoch from
\* files of one and the same epoch tag.
C8_NoSilentMerge ==
    (JustLoaded /\ \E m \in Models : Cardinality(Matching(m)) > 1) =>
        \E e \in 0..MaxEpochs : RestoredFrom(e)

\* C9 (as claimed): the sample statement of step s saves a fake/real pair
\* exactly when s is a multiple of the integer N/10 (of 0 only 0 is a
\* multiple), the pair shares one suffix, and the suffixes of a run are
\* 0, 1, 2, ... in order.
IsMultiple(s, k) == IF k = 0 THEN s = 0 ELSE s % k = 0

C9_Step ==
    pc = "sample" =>
        /\ pc' # "crashed"
        /\ (sample_writes' # sample_writes) <=> IsMultiple(step, N \div SampleDivisor)
        /\ \A i \in 1..Len(sample_writes') :
              /\ sample_writes'[i].suffix = (i - 1) \div 2
              /\ sample_writes'[i].kind = (IF i % 2 = 1 THEN "fake" ELSE "real")

C9_SampleCadence == [][C9_Step]_vars

\* C10: the discriminator phase of a step changes the discriminator's weights
\* and no other model's; the generator phase changes the generator's and the
\* two encoders' weights and leaves the discriminator's alone.
C10_Step ==
    /\ pc \in {"d_backward", "d_step", "d_reset"} =>
          \A m \in Models \ {"discriminator"} : params'[m] = params[m]
    /\ pc = "d_step" => params'["discriminator"] # params["discriminator"]
    /\ pc \in {"g_forward", "g_backward", "g_step", "corr_step", "g_reset"} =>
          params'["discriminator"] = params["discriminator"]
    /\ pc = "g_step" => params'["generator"] # params["generator"]
    /\ pc = "corr_step" =>
          /\ params'["audio_encoder"] # params["audio_encoder"]
          /\ params'["images_encoder"] # params["images_encoder"]

C10_UpdateIsolation == [][C10_Step]_vars

\* C10 witness: the generator optimizer has stepped while the discriminator
\* holds the gradients of the generator backward pass
C10_Witness ==
    /\ pc = "corr_step"
    /\ grad["discriminator"] > 0
    /\ opt_steps["opt_g"] = opt_steps["opt_d"]

====
